---- MODULE Spec2Model ----
(***************************************************************************)
(* A model of generate_post.py: the candidate fetcher, the deduplicator,   *)
(* the slug / path computation of the document writer, and the round-robin *)
(* scheduler loop of main.                                                 *)
(*                                                                         *)
(* Strings are sequences of one-character strings; a character outside     *)
(* ASCII is written by its code point ("U+B3D9").  A text is a record      *)
(* [body, words]: body is the character content in blocks of BlockChars    *)
(* characters, words is what len(text.split()) returns for it.             *)
(***************************************************************************)
EXTENDS Integers, Sequences, FiniteSets, TLC

VARIABLES
    pc,        \* where main is: "idle" | "loop" | "done" | "aborted"
    count,     \* args.count
    sectors,   \* cfg["sectors"], each sector with its transient _picked
    total,     \* total = max(1, args.count)
    written,   \* the list written of main
    si,        \* the round-robin index si of main
    today,     \* the day datetime.now() falls on
    disk,      \* the files under content/: path -> document
    world,     \* what the network and the generative service can answer
    dryLeft,   \* empty batches the feeds of feed-bearing sectors may still serve
    turns,     \* history: the sector index of every iteration so far
    fed,       \* history: the iterations whose batch was not empty
    last,      \* history: what the latest iteration did
    arg,       \* the argument of a call of fetch_candidates or dedup alone
    ret        \* the result of that call

vars == <<pc, count, sectors, total, written, si, today, disk, world, dryLeft,
          turns, fed, last, arg, ret>>

(***************************************************************************)
(* Bounds of the model and constants of the program.                       *)
(***************************************************************************)
MaxCount == 2          \* --count ranges over -1 .. MaxCount
MaxSectors == 2        \* cfg["sectors"] has 0 .. MaxSectors sectors
MaxDry == 2            \* empty batches served by feed-bearing sectors
MaxFeeds == 2          \* feeds per fetch_candidates call
MaxEntries == 2        \* entries per feed
MaxLinks == 3          \* entries per fetch_candidates call, over all its feeds
MaxEachArg == 2        \* max_each ranges over 0 .. MaxEachArg
MaxBatch == 4          \* candidates per dedup call
DigestSpace == 4       \* distinct digests of the model's md5

MaxEach == 8           \* main: fetch_candidates(..., max_each=8)
MinWords == 200        \* fetch_candidates: len(text.split())>200
PrefixChars == 2000    \* dedup: it["text"][:2000]
BlockChars == 1000     \* characters one block of a text body stands for
PickSize == 3          \* main: items[:3]
MaxSlug == 60          \* save_post: slugify(title)[:60]

Min(a, b) == IF a < b THEN a ELSE b
Max(a, b) == IF a > b THEN a ELSE b

\* F applied to the value of x: the argument is evaluated once, before F's
\* body, as Python evaluates the arguments of a call
Let(x, F(_)) == CHOOSE r \in {F(v) : v \in {x}} : TRUE

\* s[:n] of Python, for n >= 0
Take(s, n) == Let(s, LAMBDA v : SubSeq(v, 1, Min(n, Len(v))))

RECURSIVE Concat(_)
Concat(ss) ==
    Let(ss, LAMBDA v : IF v = <<>> THEN <<>> ELSE Head(v) \o Concat(Tail(v)))

Range(s) == {s[i] : i \in DOMAIN s}

(***************************************************************************)
(* slugify                                                                 *)
(***************************************************************************)
\* unicodedata.normalize("NFKD", .) on one character: a Hangul syllable
\* decomposes into conjoining jamo, a fullwidth letter into the ASCII letter
NFKD1(c) ==
    CASE c = "U+B3D9" -> <<"U+1103", "U+1169", "U+11BC">>
      [] c = "U+D5A5" -> <<"U+1112", "U+1163", "U+11BC">>
      [] c = "U+B9AC" -> <<"U+1105", "U+1175">>
      [] c = "U+BDF0" -> <<"U+1107", "U+1172">>
      [] c = "U+FF21" -> <<"A">>
      [] OTHER -> <<c>>

NFKD(s) == Let(s, LAMBDA v : Concat([i \in DOMAIN v |-> NFKD1(v[i])]))

\* the characters [a-zA-Z0-9\- ] keeps, among those the model uses
SlugChars == {"a", "b", "o", "p", "s", "t", "A", "B", "1", "2", "3", "4", "-", " "}

\* re.sub(r"[^a-zA-Z0-9\- ]", "", s)
KeepSlugChars(s) == Let(s, LAMBDA v : SelectSeq(v, LAMBDA c : c \in SlugChars))

RECURSIVE LStrip(_)
LStrip(s) ==
    Let(s, LAMBDA v : IF v # <<>> /\ Head(v) = " " THEN LStrip(Tail(v)) ELSE v)

RECURSIVE RStrip(_)
RStrip(s) ==
    Let(s, LAMBDA v : IF v # <<>> /\ v[Len(v)] = " "
                      THEN RStrip(SubSeq(v, 1, Len(v) - 1)) ELSE v)

\* s.strip()
Strip(s) == RStrip(LStrip(s))

Lower1(c) == CASE c = "A" -> "a" [] c = "B" -> "b" [] OTHER -> c

\* s.lower()
Lower(s) == Let(s, LAMBDA v : [i \in DOMAIN v |-> Lower1(v[i])])

\* s.replace(" ", "-")
Hyphenate(s) ==
    Let(s, LAMBDA v : [i \in DOMAIN v |-> IF v[i] = " " THEN "-" ELSE v[i]])

\* re.sub(r"-+", "-", s)
RECURSIVE Collapse(_)
Collapse(s) ==
    Let(s, LAMBDA v :
        IF Len(v) < 2 THEN v
        ELSE IF v[1] = "-" /\ v[2] = "-" THEN Collapse(Tail(v))
        ELSE <<v[1]>> \o Collapse(Tail(v)))

slugify(s) ==
    Let(Collapse(Hyphenate(Lower(Strip(KeepSlugChars(NFKD(s)))))),
        LAMBDA out : IF out = <<>> THEN <<"p", "o", "s", "t">> ELSE out)

(***************************************************************************)
(* fetch_candidates                                                        *)
(***************************************************************************)
\* A link is a pair <<feed, entry>> naming the page; texts are records.
NoLink == <<0, 0>>                           \* e.get("link") is None or ""
NoHtml == "no-html"                          \* trafilatura.fetch_url(url) is None
NoText == [body |-> <<>>, words |-> 0 - 1]   \* trafilatura.extract(...) is None

EmptyText == [body |-> <<>>, words |-> 0]

\* len(text.split())
WordCount(text) == text.words

\* feedparser.parse(f).entries: a feed that cannot be parsed has none
Entries(f) == IF f.broken THEN <<>> ELSE f.entries

\* text = trafilatura.extract(html, ...) if html else ""
Extracted(e) == IF e.html # NoHtml THEN e.text ELSE EmptyText

\* if text and len(text.split())>200
LongEnoughAtLeast(text) ==
    text # NoText /\ text # EmptyText /\ WordCount(text) >= MinWords
LongEnough(text) == text # NoText /\ text # EmptyText /\ WordCount(text) > MinWords

\* one turn of the inner loop: what it appends to items
EntryItems(e) ==
    IF e.link = NoLink THEN <<>>
    ELSE Let(Extracted(e), LAMBDA text :
            IF LongEnough(text)
            THEN <<[title |-> e.title, url |-> e.link, text |-> text]>>
            ELSE <<>>)

\* the inner loop over d.entries[:max_each]; the mutant stops at the first
\* entry it skips
RECURSIVE EntryLoop(_)
EntryLoop(es) ==
    Let(es, LAMBDA v :
        IF v = <<>> THEN <<>> ELSE EntryItems(Head(v)) \o EntryLoop(Tail(v)))

RECURSIVE EntryLoopBreaks(_)
EntryLoopBreaks(es) ==
    Let(es, LAMBDA v :
        IF v = <<>> \/ EntryItems(Head(v)) = <<>> THEN <<>>
        ELSE EntryItems(Head(v)) \o EntryLoopBreaks(Tail(v)))

FeedItemsBreaks(f, max_each) == EntryLoopBreaks(Take(Entries(f), max_each))
FeedItems(f, max_each) == EntryLoop(Take(Entries(f), max_each))

RECURSIVE fetch_candidates(_, _)
fetch_candidates(feeds, max_each) ==
    Let(feeds, LAMBDA v :
        IF v = <<>> THEN <<>>
        ELSE FeedItems(Head(v), max_each) \o fetch_candidates(Tail(v), max_each))

(***************************************************************************)
(* dedup                                                                   *)
(***************************************************************************)
\* text[:2000]; the mutant takes the whole text
PrefixWhole(text) == text.body
Prefix(text) == Take(text.body, PrefixChars \div BlockChars)

\* hashlib.md5(.).hexdigest(): a function of the characters alone, with
\* finitely many values
RECURSIVE md5(_)
md5(s) ==
    Let(s, LAMBDA v :
        IF v = <<>> THEN 1 ELSE (3 * md5(Tail(v)) + Head(v)) % DigestSpace)

Fingerprint(it) == md5(Prefix(it.text))

\* the loop of dedup: seen and out, item by item
RECURSIVE UniqueLoop(_, _, _)
UniqueLoop(items, seen, out) ==
    Let(<<items, seen, out>>, LAMBDA v :
        IF v[1] = <<>> THEN v[3]
        ELSE Let(Fingerprint(Head(v[1])), LAMBDA h :
                IF h \in v[2] THEN UniqueLoop(Tail(v[1]), v[2], v[3])
                ELSE UniqueLoop(Tail(v[1]), v[2] \cup {h}, Append(v[3], Head(v[1])))))

Unique(items) == UniqueLoop(items, {}, <<>>)

\* random.shuffle(out): p is the permutation the generator draws
Shuffle(out, p) == [i \in DOMAIN out |-> out[p[i]]]

Shuffles(out) ==
    Let(out, LAMBDA v : {Shuffle(v, p) : p \in Permutations(DOMAIN v)})

\* the results dedup(items) can return
dedup(items) == Shuffles(Unique(items))

(***************************************************************************)
(* save_post                                                               *)
(***************************************************************************)
\* sector["name"].replace(" ","-").lower()
Section(name) == Lower(Hyphenate(name))

\* Path("content")/section/f"{today}-{slug}.md", slug = slugify(title)[:60]
SavePath(sector, title, day) ==
    [section |-> Section(sector.name), date |-> day,
     slug |-> Take(slugify(title), MaxSlug)]

\* [s.get("url") for s in sector.get("_picked", []) if s.get("url")]
SourcesOf(picked) ==
    Let(SelectSeq(picked, LAMBDA c : c.url # NoLink),
        LAMBDA withUrl : [i \in DOMAIN withUrl |-> withUrl[i].url])

\* the document save_post writes: the front matter's fields and the body
SaveDoc(sector, title, body, day) ==
    [title |-> Strip(title), date |-> day, categories |-> <<sector.name>>,
     sources |-> SourcesOf(sector._picked), body |-> body]

\* path.write_text(...): creates the file or replaces the one at the path
WriteText(d, path, doc) ==
    Let(<<path, doc>>, LAMBDA v :
        [p \in DOMAIN d \cup {v[1]} |-> IF p = v[1] THEN v[2] ELSE d[p]])

(***************************************************************************)
(* main                                                                    *)
(***************************************************************************)
\* total = max(1, args.count)
TotalUnclamped(c) == c
Total(c) == Max(1, c)

\* while len(written) < total
LoopCondInclusive == Len(written) <= total
LoopCondCeiling == Len(written) < total /\ si < 2
LoopCond == Len(written) < total

\* sectors[si % len(sectors)], as a position of the sequence sectors
SectorIndexFromOne(i, n) == ((i + 1) % n) + 1
SectorIndex(i, n) == (i % n) + 1

\* si += 1
NextIndex(i) == i + 1

\* picked = items[:3]
PickedAll(items) == items
Picked(items) == Take(items, PickSize)

\* f"{sector['name']} ..." with the five characters after the name
FallbackTitle(name) == name \o <<" ", "U+B3D9", "U+D5A5", " ", "U+B9AC", "U+BDF0">>

\* try: title = ask_llm(...) except Exception: title = fallback
SuggestTitleFixed(sector, fails, answer) ==
    IF fails THEN FallbackTitle(<<"A">>) ELSE answer
SuggestTitle(sector, fails, answer) ==
    IF fails THEN FallbackTitle(sector.name) ELSE answer

\* what make_article returns when the service answers
Article == "article"

\* the feed contents feedparser.parse finds for the sector's feeds
Served(sector, snap) == [i \in DOMAIN sector.feeds |-> snap[i]]

\* items = dedup(fetch_candidates(sector.get("feeds", []), max_each=8))
Batches(sector, snap) == dedup(fetch_candidates(Served(sector, snap), MaxEach))

\* the iterations the model lets a run without a feed-bearing sector take
IterCap == MaxSectors * (MaxDry + Max(1, MaxCount))

NoPath == [section |-> <<>>, date |-> 0, slug |-> <<>>]

Idle == [outcome |-> "none", idx |-> 0, items |-> <<>>, titleFailed |-> FALSE,
         title |-> <<>>, path |-> NoPath]

\* An iteration whose batch is empty: if not items: continue
IterEmpty ==
    /\ pc = "loop" /\ LoopCond /\ Len(sectors) > 0
    /\ LET idx == SectorIndex(si, Len(sectors)) IN
       /\ \E snap \in world.snaps : <<>> \in Batches(sectors[idx], snap)
       /\ IF sectors[idx].feeds = <<>>
          THEN si < IterCap /\ dryLeft' = dryLeft
          ELSE dryLeft > 0 /\ dryLeft' = dryLeft - 1
       /\ si' = NextIndex(si)
       /\ turns' = Append(turns, idx)
       /\ last' = [Idle EXCEPT !.outcome = "empty", !.idx = idx]
    /\ UNCHANGED <<pc, count, sectors, total, written, today, disk, world, fed,
                   arg, ret>>

\* An iteration that picks, gets a title and a body, and saves the document
IterSaved ==
    /\ pc = "loop" /\ LoopCond /\ Len(sectors) > 0
    /\ LET idx == SectorIndex(si, Len(sectors)) IN
       \E snap \in world.snaps, fails \in BOOLEAN, answer \in world.titles,
          day \in today .. Min(today + 1, world.lastDay) :
         \E items \in Batches(sectors[idx], snap) :
           /\ items # <<>>
           /\ \E sector \in {[sectors[idx] EXCEPT !._picked = Picked(items)]} :
              \E title \in {SuggestTitle(sector, fails, answer)} :
              \E path \in {SavePath(sector, title, day)} :
                 /\ sectors' = [sectors EXCEPT ![idx] = sector]
                 /\ disk' = WriteText(disk, path, SaveDoc(sector, title, Article, day))
                 /\ written' = Append(written, path)
                 /\ today' = day
                 /\ last' = [outcome |-> "saved", idx |-> idx, items |-> items,
                             titleFailed |-> fails, title |-> title, path |-> path]
           /\ si' = NextIndex(si)
           /\ turns' = Append(turns, idx)
           /\ fed' = fed + 1
    /\ UNCHANGED <<pc, count, total, world, dryLeft, arg, ret>>

\* An iteration in which make_article raises: nothing catches it
IterBodyFails ==
    /\ pc = "loop" /\ LoopCond /\ Len(sectors) > 0
    /\ LET idx == SectorIndex(si, Len(sectors)) IN
       \E snap \in world.snaps, fails \in BOOLEAN, answer \in world.titles :
         \E items \in Batches(sectors[idx], snap) :
           /\ items # <<>>
           /\ LET sector == [sectors[idx] EXCEPT !._picked = Picked(items)]
              IN /\ sectors' = [sectors EXCEPT ![idx] = sector]
                 /\ last' = [Idle EXCEPT !.outcome = "bodyfail", !.idx = idx,
                               !.titleFailed = fails]
           /\ si' = NextIndex(si)
           /\ turns' = Append(turns, idx)
           /\ fed' = fed + 1
    /\ pc' = "aborted"
    /\ UNCHANGED <<count, total, written, today, disk, world, dryLeft, arg, ret>>

\* si % len(sectors) with no sector configured: ZeroDivisionError
CrashNoSectors ==
    /\ pc = "loop" /\ LoopCond /\ Len(sectors) = 0
    /\ pc' = "aborted"
    /\ last' = [Idle EXCEPT !.outcome = "crash"]
    /\ UNCHANGED <<count, sectors, total, written, si, today, disk, world, dryLeft,
                   turns, fed, arg, ret>>

\* The loop condition fails: print(f"Generated {len(written)} post(s).")
Finish ==
    /\ pc = "loop" /\ ~LoopCond
    /\ pc' = "done"
    /\ UNCHANGED <<count, sectors, total, written, si, today, disk, world, dryLeft,
                   turns, fed, last, arg, ret>>

(***************************************************************************)
(* The inputs: configurations and what the network serves.                 *)
(***************************************************************************)
Digits == <<"1", "2", "3", "4">>

\* the i-th sector of a configuration; it has one feed or none
MkSector(i, hasFeed) ==
    [name |-> <<"A", " ", Digits[i]>>,
     feeds |-> IF hasFeed THEN <<"feed">> ELSE <<>>,
     _picked |-> <<>>]

Configs ==
    {[i \in 1..n |-> MkSector(i, flags[i])] :
        n \in 0..MaxSectors, flags \in [1..MaxSectors -> BOOLEAN]}

Txt(body, words) == [body |-> body, words |-> words]

Page(k, body, words) ==
    [title |-> "t", link |-> <<1, k>>, html |-> "html", text |-> Txt(body, words)]

Feed(entries) == [broken |-> FALSE, entries |-> entries]

SnapBroken == <<[broken |-> TRUE, entries |-> <<>>]>>
SnapShort == <<Feed(<<Page(1, <<1>>, MinWords)>>)>>
SnapDup == <<Feed(<<Page(1, <<1, 1>>, 300), Page(2, <<1, 1, 2>>, 400)>>)>>
SnapTwo == <<Feed(<<Page(1, <<1>>, 300), Page(2, <<2>>, 300)>>)>>
SnapFour ==
    <<Feed(<<Page(1, <<1>>, 300), Page(2, <<2>>, 300), Page(3, <<3>>, 300),
             Page(4, <<3, 1>>, 300)>>)>>

TitleSame == <<"A", " ", "1", "!">>
TitleWide == <<"U+FF21", "-", "-", "B", " ">>
TitleHangul == <<"U+B3D9">>

LeanWorld ==
    [snaps |-> {SnapBroken, SnapShort, SnapDup, SnapTwo},
     titles |-> {TitleSame, TitleHangul}, lastDay |-> 1]

DeadWorld == [snaps |-> {SnapBroken, SnapShort}, titles |-> {TitleSame}, lastDay |-> 0]

PlainWorld ==
    [snaps |-> {SnapBroken, SnapTwo}, titles |-> {TitleWide}, lastDay |-> 0]

RichWorld ==
    [snaps |-> {SnapBroken, SnapDup, SnapFour}, titles |-> {TitleHangul}, lastDay |-> 0]

\* main up to the loop: arguments parsed, configuration loaded
MainInit(worlds, counts, configs) ==
    /\ pc = "loop"
    /\ count \in counts
    /\ total = Total(count)
    /\ sectors \in configs
    /\ written = <<>>
    /\ si = 0
    /\ today = 0
    /\ disk = <<>>
    /\ world \in worlds
    /\ dryLeft = MaxDry
    /\ turns = <<>>
    /\ fed = 0
    /\ last = Idle
    /\ arg = <<>>
    /\ ret = <<>>

Init == MainInit({LeanWorld, DeadWorld}, (0 - 1)..MaxCount, Configs)

Next == IterEmpty \/ IterSaved \/ IterBodyFails \/ CrashNoSectors \/ Finish

Spec == Init /\ [][Next]_vars

(***************************************************************************)
(* The scheduler where the rich feed is served, and where the generative   *)
(* service answers every body request.                                     *)
(***************************************************************************)
\* two documents are what a second turn of one sector takes
PickCounts == {1, 2}

PickInit == MainInit({RichWorld}, PickCounts, Configs)

PickSpec == PickInit /\ [][Next]_vars

HasFeed(cfg) == \E i \in DOMAIN cfg : cfg[i].feeds # <<>>

LiveInit == MainInit({PlainWorld}, (0 - 1)..MaxCount, {c \in Configs : HasFeed(c)})

LiveNext == IterEmpty \/ IterSaved \/ Finish

\* main is a sequential program: it keeps taking steps while it can
LiveSpec == LiveInit /\ [][LiveNext]_vars /\ WF_vars(LiveNext)

(***************************************************************************)
(* fetch_candidates and dedup called alone.                                *)
(***************************************************************************)
NoMain ==
    /\ count = 0 /\ total = 0 /\ sectors = <<>> /\ written = <<>> /\ si = 0
    /\ today = 0 /\ disk = <<>> /\ world = DeadWorld /\ dryLeft = 0
    /\ turns = <<>> /\ fed = 0 /\ last = Idle

Kinds == {"nolink", "nohtml", "notext", "w200", "w201"}

\* the entry of feed f at position e, of the given kind
MkEntry(kind, f, e) ==
    [title |-> "t",
     link |-> IF kind = "nolink" THEN NoLink ELSE <<f, e>>,
     html |-> IF kind = "nohtml" THEN NoHtml ELSE "html",
     text |-> CASE kind = "notext" -> NoText
                [] kind = "w200" -> Txt(<<f, e>>, MinWords)
                [] OTHER -> Txt(<<f, e>>, MinWords + 1)]

\* a shape gives each feed its number of entries, or -1 for a feed that
\* cannot be parsed
Shapes ==
    UNION {[1..n -> (0 - 1)..MaxEntries] : n \in 0..MaxFeeds}

RECURSIVE ShapeLinks(_)
ShapeLinks(sh) == IF sh = <<>> THEN 0 ELSE Max(0, Head(sh)) + ShapeLinks(Tail(sh))

MkFeeds(sh, kinds) ==
    [f \in DOMAIN sh |->
        [broken |-> sh[f] < 0,
         entries |-> [e \in 1..Max(0, sh[f]) |->
                        MkEntry(kinds[ShapeLinks(SubSeq(sh, 1, f - 1)) + e], f, e)]]]

FeedLists ==
    {MkFeeds(sh, kinds) :
        sh \in {x \in Shapes : ShapeLinks(x) <= MaxLinks},
        kinds \in [1..MaxLinks -> Kinds]}

FetchInit ==
    /\ NoMain
    /\ pc = "call"
    /\ arg \in [feeds : FeedLists, max_each : 0..MaxEachArg]
    /\ ret = <<>>

FetchCall ==
    /\ pc = "call"
    /\ ret' = fetch_candidates(arg.feeds, arg.max_each)
    /\ pc' = "returned"
    /\ UNCHANGED <<count, sectors, total, written, si, today, disk, world,
                   dryLeft, turns, fed, last, arg>>

FetchSpec == FetchInit /\ [][FetchCall]_vars

Bodies == {<<1, 1>>, <<1, 1, 1>>, <<1, 2>>, <<2>>, <<3>>}

CandidateLists ==
    UNION {{[i \in 1..n |-> [title |-> "t", url |-> <<1, i>>,
                             text |-> Txt(b[i], 300)]] : b \in [1..n -> Bodies]} :
           n \in 0..MaxBatch}

DedupInit ==
    /\ NoMain
    /\ pc = "call"
    /\ arg \in [items : CandidateLists]
    /\ ret = <<>>

DedupCall ==
    /\ pc = "call"
    /\ ret' \in dedup(arg.items)
    /\ pc' = "returned"
    /\ UNCHANGED <<count, sectors, total, written, si, today, disk, world,
                   dryLeft, turns, fed, last, arg>>

DedupSpec == DedupInit /\ [][DedupCall]_vars

(***************************************************************************)
(* The claims.                                                             *)
(***************************************************************************)

\* C1 as stated: at every point of a run the number of documents written is
\* at most the requested count, a count of 0 or below asking for none.
C1_AtMostRequested ==
    pc \in {"loop", "done", "aborted"} => Len(written) <= Max(0, count)

\* C1 amended: at every point of a run the number of documents written, and
\* of files on disk, is at most the requested count or 1, whichever is larger.
C1_AtMostClampedCount ==
    pc \in {"loop", "done", "aborted"} =>
        /\ Len(written) <= (IF count > 1 THEN count ELSE 1)
        /\ Cardinality(DOMAIN disk) <= (IF count > 1 THEN count ELSE 1)

C1_Witness == pc = "done" /\ count <= 0 /\ Len(written) = 1

\* C2: when some sector has feeds that yield (all but boundedly many of its
\* batches are non-empty) and the generative service answers, the loop
\* terminates, and a run that has ended has written exactly total documents.
C2_TerminatesWithTarget ==
    /\ <>(pc = "done")
    /\ [](pc = "done" => Len(written) = (IF count > 1 THEN count ELSE 1))

C2_Witness ==
    /\ pc = "done" /\ count = 2 /\ Len(written) = 2
    /\ Len(turns) > 2 /\ Len(sectors) = 2

\* a step that is an iteration with an empty batch
C3_EmptyStep == last'.outcome = "empty" /\ turns' # turns

\* C3: iteration k (from 0) processes sectors[k mod len(sectors)] and the
\* index advances on every iteration, so a sector comes up again exactly
\* len(sectors) iterations later; an iteration with an empty batch writes
\* nothing, raises nothing and leaves the loop running short of its target.
C3_RoundRobin ==
    /\ [](/\ si = Len(turns)
          /\ \A k \in DOMAIN turns : turns[k] = ((k - 1) % Len(sectors)) + 1
          /\ \A j, k \in DOMAIN turns :
                (turns[j] = turns[k]) <=> ((k - j) % Len(sectors) = 0))
    /\ [][C3_EmptyStep =>
            /\ written' = written /\ disk' = disk /\ sectors' = sectors
            /\ pc' = "loop" /\ Len(written') < total'
            /\ si' = si + 1]_vars

C3_Witness ==
    /\ last.outcome = "empty" /\ Len(sectors) = 2 /\ Len(written) = 1
    /\ Len(turns) = 5 /\ pc = "loop"

\* C4: with at least one sector configured, as long as no iteration has had
\* a non-empty batch the loop is still running and nothing has been written.
C4_DryRunSpins ==
    (Len(sectors) > 0 /\ fed = 0) =>
        pc = "loop" /\ written = <<>> /\ DOMAIN disk = {}

C4_Witness ==
    /\ fed = 0 /\ Len(sectors) = 2 /\ Len(turns) >= 3 * Len(sectors)
    /\ pc = "loop"

\* the first 2000 characters of a candidate's text
C5_Head2000(c) ==
    SubSeq(c.text.body, 1, Min(PrefixChars \div BlockChars, Len(c.text.body)))

\* the positions of xs whose fingerprint no earlier position has
C5_FirstSeen(xs) ==
    {i \in DOMAIN xs :
        \A j \in 1..(i - 1) : md5(C5_Head2000(xs[j])) # md5(C5_Head2000(xs[i]))}

\* C5: dedup(xs) is a permutation of the candidates of xs that are the first
\* in input order with their fingerprint; no two results share a fingerprint,
\* the result is no longer than xs, and of two candidates that agree on their
\* first 2000 characters only the earlier one can be in the result.
C5_FirstSeenWins ==
    pc = "returned" /\ "items" \in DOMAIN arg =>
        LET xs == arg.items IN
        /\ Range(ret) = {xs[i] : i \in C5_FirstSeen(xs)}
        /\ Len(ret) = Cardinality(C5_FirstSeen(xs))
        /\ Len(ret) <= Len(xs)
        /\ \A i, j \in DOMAIN ret :
              i # j => md5(C5_Head2000(ret[i])) # md5(C5_Head2000(ret[j]))
        /\ \A i, j \in DOMAIN xs :
              i < j /\ C5_Head2000(xs[i]) = C5_Head2000(xs[j]) => xs[j] \notin Range(ret)

C5_Witness ==
    /\ pc = "returned" /\ "items" \in DOMAIN arg
    /\ Len(arg.items) = 4 /\ Len(ret) = 3
    /\ arg.items[2].text.body = <<1, 1>> /\ arg.items[4].text.body = <<1, 1, 1>>
    /\ arg.items[2] \in Range(ret)
    /\ ret[1] = arg.items[3]

\* An entry is considered when its feed parses and it is among the first
\* max_each entries of the feed.
C6_Considered ==
    {<<f, e>> \in (DOMAIN arg.feeds) \X (1..MaxEntries + 1) :
        /\ ~arg.feeds[f].broken
        /\ e <= Len(arg.feeds[f].entries)
        /\ e <= arg.max_each}

\* the entry has a link, its page is retrieved and extraction yields text
C6_Usable(en) ==
    en.link # NoLink /\ en.html # NoHtml /\ en.text # NoText /\ en.text.words > 0

\* the result holds the entries keep names, each once, in feed order and in
\* entry order within a feed, with the extracted text
C6_ResultIs(keep) ==
    /\ {ret[i].url : i \in DOMAIN ret} = keep
    /\ Len(ret) = Cardinality(keep)
    /\ \A i, j \in DOMAIN ret :
          i < j => \/ ret[i].url[1] < ret[j].url[1]
                   \/ ret[i].url[1] = ret[j].url[1] /\ ret[i].url[2] < ret[j].url[2]
    /\ \A i \in DOMAIN ret :
          ret[i].text = arg.feeds[ret[i].url[1]].entries[ret[i].url[2]].text

\* C6 as stated: fetch_candidates considers at most max_each entries of each
\* feed in feed order and retains an entry exactly when it has a link, its
\* page is retrieved, extraction yields text and the text has at least 200
\* words.
C6_RetainsAtLeast200 ==
    pc = "returned" /\ "feeds" \in DOMAIN arg =>
        C6_ResultIs({x \in C6_Considered :
            LET en == arg.feeds[x[1]].entries[x[2]]
            IN C6_Usable(en) /\ en.text.words >= 200})

\* C6 amended: fetch_candidates considers at most max_each entries of each
\* feed in feed order and retains an entry exactly when it has a link, its
\* page is retrieved, extraction yields text and the text has more than 200
\* words, so a text of exactly 200 words is skipped.
C6_RetainsMoreThan200 ==
    pc = "returned" /\ "feeds" \in DOMAIN arg =>
        C6_ResultIs({x \in C6_Considered :
            LET en == arg.feeds[x[1]].entries[x[2]]
            IN C6_Usable(en) /\ en.text.words > 200})

C6_Witness ==
    /\ pc = "returned" /\ "feeds" \in DOMAIN arg
    /\ arg.max_each = 1 /\ Len(arg.feeds) = 2
    /\ ~arg.feeds[1].broken /\ Len(arg.feeds[1].entries) = 2
    /\ arg.feeds[1].entries[1].text.words = 201
    /\ arg.feeds[1].entries[1].html # NoHtml /\ arg.feeds[1].entries[1].link # NoLink
    /\ arg.feeds[1].entries[2].text.words = 201
    /\ arg.feeds[1].entries[2].html # NoHtml /\ arg.feeds[1].entries[2].link # NoLink
    /\ ~arg.feeds[2].broken /\ Len(arg.feeds[2].entries) = 1
    /\ arg.feeds[2].entries[1].text.words = 200
    /\ arg.feeds[2].entries[1].html # NoHtml /\ arg.feeds[2].entries[1].link # NoLink
    /\ Len(ret) = 1 /\ ret[1].url = <<1, 1>>

\* entry e of feed f is considered and has a link, a page and a text of more
\* than 200 words
C7_Valid(f, e) ==
    /\ ~arg.feeds[f].broken
    /\ e <= Len(arg.feeds[f].entries) /\ e <= arg.max_each
    /\ LET en == arg.feeds[f].entries[e]
       IN en.link # NoLink /\ en.html # NoHtml /\ en.text # NoText
          /\ en.text.words > MinWords

C8_TitleFallback ==
    /\ [][(turns' # turns /\ last'.titleFailed /\ last'.outcome # "bodyfail") =>
            /\ last'.outcome = "saved"
            /\ pc' = "loop"
            /\ last'.title = sectors[last'.idx].name
                                \o <<" ", "U+B3D9", "U+D5A5", " ", "U+B9AC", "U+BDF0">>
            /\ Len(written') = Len(written) + 1
            /\ written'[Len(written')] = last'.path
            /\ last'.path \in DOMAIN disk'
            /\ disk'[last'.path].title = last'.title
            /\ disk'[last'.path].body = Article]_vars
    /\ [][(turns' # turns /\ last'.outcome = "bodyfail") =>
            pc' = "aborted" /\ written' = written /\ disk' = disk]_vars

C8_Witness ==
    /\ last.outcome = "saved" /\ last.titleFailed /\ last.idx = 2
    /\ Len(written) = 2 /\ pc = "done"

\* C9: the paths save_post writes in a run are pairwise distinct, and the
\* number of documents on disk equals the written count.
C9_DistinctPaths ==
    pc \in {"loop", "done", "aborted"} =>
        /\ \A i, j \in DOMAIN written : i # j => written[i] # written[j]
        /\ Cardinality(DOMAIN disk) = Len(written)

\* C10: after an iteration that saved a document, the batch of n >= 1
\* candidates it got has no two with one fingerprint, the sector's _picked is
\* the first min(3, n) of them, and the sources of the document at the path
\* it wrote are the URLs of exactly those candidates, in that order.
C10_PickedAreSources ==
    (pc \in {"loop", "done", "aborted"} /\ last.outcome = "saved") =>
        LET n == Len(last.items)
            m == IF n < 3 THEN n ELSE 3
        IN /\ n >= 1
           /\ \A i, j \in 1..n :
                 i # j => md5(C5_Head2000(last.items[i])) # md5(C5_Head2000(last.items[j]))
           /\ sectors[last.idx]._picked = [i \in 1..m |-> last.items[i]]
           /\ last.path \in DOMAIN disk
           /\ disk[last.path].sources = [i \in 1..m |-> last.items[i].url]

C10_Witness ==
    /\ last.outcome = "saved" /\ Len(last.items) = 4
    /\ Len(sectors) = 1 /\ Len(written) = 2
    /\ \E p \in DOMAIN disk :
          /\ p # last.path
          /\ Len(disk[p].sources) = 1

====
